---- MODULE Spec2Model ----
(***************************************************************************)
(* Model of fitz_backend/main.py: the four POST handlers of the FastAPI    *)
(* application and the external services they call (identity service,      *)
(* record store, text-generation service, music catalogue, nutrition API). *)
(* Every external call is one atomic step; a handler is the sequence of    *)
(* its external calls, and handlers of different requests interleave at    *)
(* those calls (several worker processes share the external stores).       *)
(***************************************************************************)
EXTENDS Integers, Sequences, FiniteSets, TLC

VARIABLES
    gemini_model,     \* main.py:60-67   None or the GenerativeModel handle
    spotify,          \* main.py:69-86   None or the Spotify client
    EDAMAM_APP_ID,    \* main.py:54
    EDAMAM_APP_KEY,   \* main.py:55
    identities,       \* identity service: sequence of user records, never deleted
    profiles,         \* record store: users/{uid} profile documents
    plans,            \* record store: users/{user_uid}/plans sub-collections
    plan,             \* generate_plan requests in flight / finished
    reg,              \* register_user requests in flight / finished
    logins,           \* finished login_user requests
    nutrition         \* finished analyze_nutrition requests

vars == <<gemini_model, spotify, EDAMAM_APP_ID, EDAMAM_APP_KEY, identities,
          profiles, plans, plan, reg, logins, nutrition>>

None == "None"

\* ---------------------------------------------------------------- bounds
MaxPlanReqs == 2       \* generate_plan requests per behaviour
MaxRegReqs == 2        \* register requests per behaviour
MaxLogins == 2         \* login requests per behaviour
MaxNutReqs == 2        \* analyze_nutrition requests per behaviour
MaxIngredients == 2    \* longest ingredient list enumerated

\* ------------------------------------------------------ program constants
SearchLimit == 5       \* spotify.search(..., limit=5)
MinPasswordLen == 6    \* RegisterRequest.password min_length
MaxDurationWeeks == 52 \* GeneratePlanRequest.duration_weeks le

HTTP_200_OK == 200
HTTP_201_CREATED == 201
HTTP_400_BAD_REQUEST == 400
HTTP_404_NOT_FOUND == 404
HTTP_409_CONFLICT == 409
HTTP_500_INTERNAL_SERVER_ERROR == 500
HTTP_502_BAD_GATEWAY == 502
HTTP_503_SERVICE_UNAVAILABLE == 503

\* Sequences over S of length at most n.
SeqsUpTo(S, n) == UNION {[1..k -> S] : k \in 0..n}

\* ------------------------------------------------- module initialisation
\* main.py:60-67: the model handle exists iff GEMINI_API_KEY is set.
LoadGemini(GEMINI_API_KEY) ==
    IF GEMINI_API_KEY = None THEN None ELSE "gemini-pro"

\* main.py:69-86: the client exists iff both credentials are set and the
\* constructor did not raise.
LoadSpotify(SPOTIPY_CLIENT_ID, SPOTIPY_CLIENT_SECRET, initRaises) ==
    IF SPOTIPY_CLIENT_ID = None \/ SPOTIPY_CLIENT_SECRET = None THEN None
    ELSE IF initRaises THEN None
    ELSE "Spotify"

\* main.py:43: db = firestore.client() of firebase_admin.firestore, the
\* synchronous google.cloud.firestore.Client.  Its DocumentReference.set
\* returns a WriteResult and its CollectionReference.add returns a
\* (timestamp, reference) tuple; neither is awaitable.
db == [client |-> "firestore.Client", awaitable_results |-> FALSE]

\* `await x` (main.py:127, 230): evaluating it on a value that is not
\* awaitable raises TypeError, after the call that produced x has returned.
AwaitRaises(client) == ~client.awaitable_results

\* ===================================================== generate_plan ====
PlanReqs == 1..MaxPlanReqs
Users == {"u1", "u2"}
WorkoutTexts == {"workoutA", "workoutB"}
DietTexts == {"dietA"}

\* GeneratePlanRequest bodies (main.py:100-106) that passed validation.
PlanBodies ==
    {[user_uid |-> u, current_weight |-> 70, target_weight |-> 65,
      duration_weeks |-> 8, music_genre |-> "edm",
      workout_intensity |-> "moderate"] : u \in Users}

ValidPlanBody(b) ==
    /\ b.current_weight > 0
    /\ b.target_weight > 0
    /\ b.duration_weeks > 0
    /\ b.duration_weeks <= MaxDurationWeeks

\* Catalogue items as the search may return them.
ItemFull ==
    [name |-> "n1", description |-> "d1",
     external_urls |-> [spotify |-> "url1"],
     images |-> <<[url |-> "img1"]>>,
     owner |-> [display_name |-> "o1"], tracks |-> [total |-> 10]]
ItemBare ==
    [name |-> "n2",
     external_urls |-> [spotify |-> "url2"],
     images |-> <<>>,
     owner |-> [display_name |-> "o2"], tracks |-> [total |-> 20]]
ItemNoName ==
    [description |-> "d3",
     external_urls |-> [spotify |-> "url3"],
     images |-> <<>>,
     owner |-> [display_name |-> "o3"], tracks |-> [total |-> 30]]
\* Result lists enumerated: well-formed items (one without description and
\* image), and a malformed item after a well-formed one.
ItemLists ==
    {<<ItemBare, ItemFull>>, <<ItemFull, ItemNoName>>}

\* What spotify.search can do: raise SpotifyException, raise something
\* else, or return a list of at most `limit` items.
SearchResults ==
    {[kind |-> "SpotifyException"], [kind |-> "Exception"]}
    \cup {[kind |-> "ok", items |-> s] : s \in {l \in ItemLists : Len(l) <= SearchLimit}}

MarkerSpotifyError == [error |-> "Spotify API error"]
MarkerUnexpected == [error |-> "An unexpected Spotify error occurred"]
MarkerNotInitialized == [error |-> "Spotify API not initialized"]

\* main.py:210-217: the subscripted keys raise KeyError when absent.
Extractable(item) ==
    {"name", "external_urls", "images", "owner", "tracks"} \subseteq DOMAIN item

ExtractItem(item) ==
    [name |-> item.name,
     description |-> IF "description" \in DOMAIN item THEN item.description
                     ELSE "No description available",
     spotify_url |-> item.external_urls.spotify,
     image_url |-> IF item.images # <<>> THEN item.images[1].url ELSE None,
     owner |-> item.owner.display_name,
     tracks_count |-> item.tracks.total]

\* main.py:209-217: the loop appends to playlist_suggestions item by item and
\* stops at the first item whose extraction raises.
RECURSIVE AppendItems(_, _)
AppendItems(acc, items) ==
    IF items = <<>> THEN [list |-> acc, raised |-> FALSE]
    ELSE IF ~Extractable(Head(items)) THEN [list |-> acc, raised |-> TRUE]
    ELSE AppendItems(Append(acc, ExtractItem(Head(items))), Tail(items))

\* main.py:203-226: TRUE iff the try block ran to its end, FALSE iff an
\* except clause or the else branch appended a marker.
TryBlockCompleted(client, result) ==
    /\ client # None
    /\ result.kind = "ok"
    /\ ~AppendItems(<<>>, result.items).raised

\* main.py:202-226: playlist_suggestions after the catalogue step.
PlaylistSuggestions(client, result) ==
    IF client = None THEN <<MarkerNotInitialized>>
    ELSE IF result.kind = "SpotifyException" THEN <<MarkerSpotifyError>>
    ELSE IF result.kind = "Exception" THEN <<MarkerUnexpected>>
    ELSE LET got == AppendItems(<<>>, result.items)
         IN  IF got.raised THEN Append(got.list, MarkerUnexpected)
             ELSE got.list

\* The state of one generate_plan request: the handler's local variables, its
\* position (pc), how its catalogue step ended (pending, ok, degraded), the
\* external calls it has made, the documents its add() calls created, and
\* the HTTP status it answered with (0 while it has not answered).
IdlePlan ==
    [pc |-> "idle", request_data |-> None, workout_plan |-> None,
     diet_general_info |-> None, playlist_suggestions |-> <<>>,
     catalog |-> "pending", calls |-> <<>>, added |-> {},
     status |-> 0, response |-> None]

Fail(req, code) ==
    [req EXCEPT !.pc = "done", !.status = code, !.response = None]

\* Faulty variant: the guard tests the wrong client handle.
GeminiUnavailable_WrongHandle == spotify = None

\* main.py:167-171
GeminiUnavailable == gemini_model = None

\* main.py:162-171: the request arrives; the guard on gemini_model.
ReceivePlan(req, body) ==
    IF GeminiUnavailable
    THEN Fail([req EXCEPT !.request_data = body], HTTP_503_SERVICE_UNAVAILABLE)
    ELSE [req EXCEPT !.pc = "workout", !.request_data = body]

\* Faulty variant: a failed workout generation call is issued again.
WorkoutStep_Retry(req, result) ==
    LET called == [req EXCEPT !.calls = Append(@, "generate_workout")]
    IN  IF result = "raise"
        THEN called
        ELSE [called EXCEPT !.pc = "diet", !.workout_plan = result]

\* main.py:175-187, 251-256: the workout generation call.
WorkoutStep(req, result) ==
    LET called == [req EXCEPT !.calls = Append(@, "generate_workout")]
    IN  IF result = "raise"
        THEN Fail(called, HTTP_500_INTERNAL_SERVER_ERROR)
        ELSE [called EXCEPT !.pc = "diet", !.workout_plan = result]

\* main.py:190-199, 251-256: the diet generation call.
DietStep(req, result) ==
    LET called == [req EXCEPT !.calls = Append(@, "generate_diet")]
    IN  IF result = "raise"
        THEN Fail(called, HTTP_500_INTERNAL_SERVER_ERROR)
        ELSE [called EXCEPT !.pc = "catalog", !.diet_general_info = result]

\* main.py:202-226: the catalogue step; the search is called only when the
\* client exists.
CatalogStep(req, result) ==
    [req EXCEPT
        !.pc = "persist",
        !.calls = IF spotify = None THEN @ ELSE Append(@, "search"),
        !.catalog = IF TryBlockCompleted(spotify, result) THEN "ok" ELSE "degraded",
        !.playlist_suggestions = PlaylistSuggestions(spotify, result)]

\* main.py:230-240: the document handed to add(); generated_at is the
\* server's timestamp, here the number of the write.
PlanRecord(req, now) ==
    [current_weight |-> req.request_data.current_weight,
     target_weight |-> req.request_data.target_weight,
     duration_weeks |-> req.request_data.duration_weeks,
     music_genre |-> req.request_data.music_genre,
     workout_intensity |-> req.request_data.workout_intensity,
     workout_plan |-> req.workout_plan,
     diet_general_info |-> req.diet_general_info,
     music_playlist_suggestions |-> req.playlist_suggestions,
     generated_at |-> now]

RECURSIVE SumLen(_, _)
SumLen(store, us) ==
    IF us = {} THEN 0
    ELSE LET u == CHOOSE x \in us : TRUE
         IN  Len(store[u]) + SumLen(store, us \ {u})

ServerTime(store) == 1 + SumLen(store, DOMAIN store)

\* Faulty variant: the write replaces the user's latest plan instead of adding one.
AddPlan_Overwrite(store, uid, doc) ==
    [store EXCEPT ![uid] = IF @ = <<>> THEN <<doc>>
                           ELSE [@ EXCEPT ![Len(@)] = doc]]

\* main.py:230: collection('users').document(uid).collection('plans').add(doc)
\* creates one new document in that user's sub-collection.
AddPlan(store, uid, doc) ==
    [store EXCEPT ![uid] = Append(@, doc)]

\* main.py:242-247
PlanResponse(req) ==
    [message |-> "Plan generated and saved successfully",
     workout_plan |-> req.workout_plan,
     diet_plan_summary |-> req.diet_general_info,
     music_playlist_suggestions |-> req.playlist_suggestions]

\* main.py:230-256: the persistence step and what follows it.  add() either
\* raises before anything is stored or stores the document and returns; the
\* handler then awaits the returned value, and any exception reaches the
\* `except Exception` clause.
PersistStep(req, addRaises) ==
    LET called == [req EXCEPT !.calls = Append(@, "add")]
        uid == req.request_data.user_uid
        stored == [called EXCEPT !.added = @ \cup {<<uid, Len(plans[uid]) + 1>>}]
    IN  IF addRaises THEN Fail(called, HTTP_500_INTERNAL_SERVER_ERROR)
        ELSE IF AwaitRaises(db) THEN Fail(stored, HTTP_500_INTERNAL_SERVER_ERROR)
        ELSE [stored EXCEPT !.pc = "done", !.status = HTTP_200_OK,
                            !.response = PlanResponse(req)]

PlanStoreAfter(req, addRaises) ==
    IF addRaises THEN plans
    ELSE AddPlan(plans, req.request_data.user_uid, PlanRecord(req, ServerTime(plans)))

UnchangedButPlan ==
    UNCHANGED <<gemini_model, spotify, EDAMAM_APP_ID, EDAMAM_APP_KEY,
                identities, profiles, reg, logins, nutrition>>

\* Requests are numbered in their order of arrival.
GP_Receive(r, body) ==
    /\ plan[r].pc = "idle"
    /\ \A q \in PlanReqs : q < r => plan[q].pc # "idle"
    /\ ValidPlanBody(body)
    /\ plan' = [plan EXCEPT ![r] = ReceivePlan(plan[r], body)]
    /\ UNCHANGED plans
    /\ UnchangedButPlan

GP_Workout(r, result) ==
    /\ plan[r].pc = "workout"
    /\ plan' = [plan EXCEPT ![r] = WorkoutStep(plan[r], result)]
    /\ UNCHANGED plans
    /\ UnchangedButPlan

GP_Diet(r, result) ==
    /\ plan[r].pc = "diet"
    /\ plan' = [plan EXCEPT ![r] = DietStep(plan[r], result)]
    /\ UNCHANGED plans
    /\ UnchangedButPlan

GP_Catalog(r, result) ==
    /\ plan[r].pc = "catalog"
    /\ plan' = [plan EXCEPT ![r] = CatalogStep(plan[r], result)]
    /\ UNCHANGED plans
    /\ UnchangedButPlan

GP_Persist(r, addRaises) ==
    /\ plan[r].pc = "persist"
    /\ plan' = [plan EXCEPT ![r] = PersistStep(plan[r], addRaises)]
    /\ plans' = PlanStoreAfter(plan[r], addRaises)
    /\ UnchangedButPlan

NextPlan ==
    \E r \in PlanReqs :
        \/ \E body \in PlanBodies : GP_Receive(r, body)
        \/ \E t \in WorkoutTexts \cup {"raise"} : GP_Workout(r, t)
        \/ \E t \in DietTexts \cup {"raise"} : GP_Diet(r, t)
        \/ \E res \in SearchResults : GP_Catalog(r, res)
        \/ \E addRaises \in BOOLEAN : GP_Persist(r, addRaises)


\* ============================================== register_user, login_user
RegReqs == 1..MaxRegReqs
ConflictMarker == "email-already-exists"
Emails == {"jane@example.com", ConflictMarker}
Passwords == {"secret1", "secret2"}

\* firebase_admin validates the address before any request is sent: exactly
\* one "@" with text on both sides.
Malformed(email) == email \notin {"jane@example.com"}

\* RegisterRequest bodies (main.py:91-94).
RegBodies ==
    {[email |-> e, password |-> p, name |-> "Jane Doe"] :
        e \in Emails, p \in Passwords}

ValidRegBody(b) == Len(b.password) >= MinPasswordLen

\* str(e) of the exceptions the handlers can catch, as sequences of tokens.
\* The identity service's texts are the Python SDK's: the message of its
\* EmailAlreadyExistsError carries the code EMAIL_EXISTS.
TextMalformedEmail(email) == <<"Malformed email address string:", email>>
TextEmailExists ==
    <<"The user with the provided email already exists", "(EMAIL_EXISTS).">>
TextAuthBackend == <<"Error while calling Auth service">>
TextStoreUnavailable == <<"503 The service is currently unavailable.">>
TextNotAwaitable == <<"object WriteResult can't be used in 'await' expression">>

\* `marker in str(e)` (main.py:134)
Contains(text, marker) == \E i \in 1..Len(text) : text[i] = marker

EmailKnown(store, email) == \E i \in 1..Len(store) : store[i].email = email

\* auth.create_user(email=, password=): [raised, store, uid]; raised is <<>>
\* when the call returned.
CreateUser(store, email, password, backendFault) ==
    IF Malformed(email)
    THEN [raised |-> TextMalformedEmail(email), store |-> store, uid |-> 0]
    ELSE IF backendFault
    THEN [raised |-> TextAuthBackend, store |-> store, uid |-> 0]
    ELSE IF EmailKnown(store, email)
    THEN [raised |-> TextEmailExists, store |-> store, uid |-> 0]
    ELSE [raised |-> <<>>,
          store |-> Append(store, [uid |-> Len(store) + 1, email |-> email,
                                   password |-> password]),
          uid |-> Len(store) + 1]

\* main.py:133-139
RegisterError(text) ==
    IF Contains(text, ConflictMarker) THEN HTTP_409_CONFLICT
    ELSE HTTP_400_BAD_REQUEST

\* The state of one register request: position, body, the uid create_user
\* returned (0: none), whether create_user was refused because the email
\* already exists upstream, and the HTTP status answered (0: not yet).
IdleReg ==
    [pc |-> "idle", request_data |-> None, uid |-> 0, existed |-> FALSE,
     status |-> 0]

\* main.py:125-126, 133-139
CreateStep(req, body, backendFault) ==
    LET got == CreateUser(identities, body.email, body.password, backendFault)
        seen == [req EXCEPT !.request_data = body,
                            !.existed = (got.raised = TextEmailExists)]
    IN  IF got.raised # <<>>
        THEN [seen EXCEPT !.pc = "done", !.status = RegisterError(got.raised)]
        ELSE [seen EXCEPT !.pc = "profile", !.uid = got.uid]

\* main.py:127-131: document(uid).set(doc) creates or replaces users/{uid}.
SetProfile(store, uid, doc) ==
    [u \in DOMAIN store \cup {uid} |-> IF u = uid THEN doc ELSE store[u]]

ProfileDoc(req, now) ==
    [name |-> req.request_data.name, email |-> req.request_data.email,
     created_at |-> now]

\* main.py:127-139: set() either raises before anything is stored or stores
\* the document and returns; the handler then awaits the returned value.
ProfileStep(req, setRaises) ==
    IF setRaises
    THEN [req EXCEPT !.pc = "done", !.status = RegisterError(TextStoreUnavailable)]
    ELSE IF AwaitRaises(db)
    THEN [req EXCEPT !.pc = "done", !.status = RegisterError(TextNotAwaitable)]
    ELSE [req EXCEPT !.pc = "done", !.status = HTTP_201_CREATED]

UnchangedButReg ==
    UNCHANGED <<gemini_model, spotify, EDAMAM_APP_ID, EDAMAM_APP_KEY,
                plans, plan, logins, nutrition>>

\* Requests are numbered in their order of arrival; the handler's first
\* step is the create_user call.
Reg_CreateUser(r, body, backendFault) ==
    /\ reg[r].pc = "idle"
    /\ \A q \in RegReqs : q < r => reg[q].pc # "idle"
    /\ ValidRegBody(body)
    /\ reg' = [reg EXCEPT ![r] = CreateStep(reg[r], body, backendFault)]
    /\ identities' = CreateUser(identities, body.email, body.password,
                                backendFault).store
    /\ UNCHANGED profiles
    /\ UnchangedButReg

Reg_SetProfile(r, setRaises) ==
    /\ reg[r].pc = "profile"
    /\ reg' = [reg EXCEPT ![r] = ProfileStep(reg[r], setRaises)]
    /\ profiles' = IF setRaises THEN profiles
                   ELSE SetProfile(profiles, reg[r].uid,
                                   ProfileDoc(reg[r], 1 + Cardinality(DOMAIN profiles)))
    /\ UNCHANGED identities
    /\ UnchangedButReg

\* auth.get_user_by_email(email) (main.py:152): the address is validated,
\* then looked up; raised is "" when the call returned a user record.
GetUserByEmail(store, email, backendFault) ==
    IF Malformed(email) THEN [raised |-> "ValueError"]
    ELSE IF backendFault THEN [raised |-> "FirebaseError"]
    ELSE IF ~EmailKnown(store, email) THEN [raised |-> "UserNotFoundError"]
    ELSE LET i == CHOOSE k \in 1..Len(store) : store[k].email = email
         IN  [raised |-> "", uid |-> store[i].uid, email |-> store[i].email,
              password |-> store[i].password]

\* Faulty variant: the handler rejects a request whose password differs from the
\* stored one.
login_user_CheckPassword(request_data, store, backendFault) ==
    LET user == GetUserByEmail(store, request_data.email, backendFault)
    IN  IF user.raised = "" /\ user.password = request_data.password
        THEN [status |-> HTTP_200_OK,
              response |-> [message |-> "User found (client handles actual authentication)",
                            uid |-> user.uid, email |-> user.email]]
        ELSE IF user.raised \in {"", "UserNotFoundError"}
        THEN [status |-> HTTP_404_NOT_FOUND,
              response |-> [detail |-> "User not found with this email."]]
        ELSE [status |-> HTTP_400_BAD_REQUEST,
              response |-> [detail |-> "Login verification failed"]]

\* main.py:142-159: request_data.password is never read.
login_user(request_data, store, backendFault) ==
    LET user == GetUserByEmail(store, request_data.email, backendFault)
    IN  IF user.raised = ""
        THEN [status |-> HTTP_200_OK,
              response |-> [message |-> "User found (client handles actual authentication)",
                            uid |-> user.uid, email |-> user.email]]
        ELSE IF user.raised = "UserNotFoundError"
        THEN [status |-> HTTP_404_NOT_FOUND,
              response |-> [detail |-> "User not found with this email."]]
        ELSE [status |-> HTTP_400_BAD_REQUEST,
              response |-> [detail |-> "Login verification failed"]]

\* LoginRequest bodies (main.py:96-98).
LoginBodies == [email : Emails, password : Passwords]

Login(body, backendFault) ==
    /\ Len(logins) < MaxLogins
    /\ logins' = Append(logins,
                        [request_data |-> body, store |-> identities,
                         fault |-> backendFault,
                         answer |-> login_user(body, identities, backendFault)])
    /\ UNCHANGED <<gemini_model, spotify, EDAMAM_APP_ID, EDAMAM_APP_KEY,
                   identities, profiles, plans, plan, reg, nutrition>>

NextAuth ==
    \/ \E r \in RegReqs, body \in RegBodies, f \in BOOLEAN :
          Reg_CreateUser(r, body, f)
    \/ \E r \in RegReqs, setRaises \in BOOLEAN : Reg_SetProfile(r, setRaises)
    \/ \E body \in LoginBodies, f \in BOOLEAN : Login(body, f)


\* ====================================================== analyze_nutrition
IngredientPool == {"1 cup cooked rice", "2 eggs"}

\* Request bodies: lists of NutritionIngredient (main.py:108-109, 259).
NutritionBodies ==
    SeqsUpTo({[ingredient |-> s] : s \in IngredientPool}, MaxIngredients)

\* What requests.post / raise_for_status / response.json() can do: return the
\* upstream JSON document, raise a RequestException (connection error or
\* non-success status), or raise something else.
UpstreamResults ==
    {[kind |-> "json", json |-> [calories |-> c]] : c \in {100, 200}}
    \cup {[kind |-> "RequestException"], [kind |-> "Exception"]}

\* Faulty variant: the ingredient strings are sent in reverse order.
IngredientStrings_Reversed(ingredients) ==
    [i \in 1..Len(ingredients) |-> ingredients[Len(ingredients) + 1 - i].ingredient]

\* main.py:278
IngredientStrings(ingredients) ==
    [i \in 1..Len(ingredients) |-> ingredients[i].ingredient]

\* main.py:259-293: [status, body, calls]; calls are the JSON payloads posted
\* upstream while handling the request.
analyze_nutrition(ingredients, upstream) ==
    IF EDAMAM_APP_ID = None \/ EDAMAM_APP_KEY = None
    THEN [status |-> HTTP_503_SERVICE_UNAVAILABLE, calls |-> <<>>,
          body |-> [detail |-> "Edamam API keys are not configured."]]
    ELSE LET posted == <<[ingredients |-> IngredientStrings(ingredients)]>>
         IN  IF upstream.kind = "json"
             THEN [status |-> HTTP_200_OK, calls |-> posted,
                   body |-> upstream.json]
             ELSE IF upstream.kind = "RequestException"
             THEN [status |-> HTTP_502_BAD_GATEWAY, calls |-> posted,
                   body |-> [detail |-> "Edamam API service is currently unavailable"]]
             ELSE [status |-> HTTP_500_INTERNAL_SERVER_ERROR, calls |-> posted,
                   body |-> [detail |-> "An unexpected error occurred"]]

AnalyzeNutrition(ingredients, upstream) ==
    /\ Len(nutrition) < MaxNutReqs
    /\ nutrition' = Append(nutrition,
                           [ingredients |-> ingredients, upstream |-> upstream,
                            answer |-> analyze_nutrition(ingredients, upstream)])
    /\ UNCHANGED <<gemini_model, spotify, EDAMAM_APP_ID, EDAMAM_APP_KEY,
                   identities, profiles, plans, plan, reg, logins>>

NextNutrition ==
    \E ingredients \in NutritionBodies, upstream \in UpstreamResults :
        AnalyzeNutrition(ingredients, upstream)

\* ------------------------------------------------------- initial states
StateInit ==
    /\ identities = <<>>
    /\ profiles = <<>>
    /\ plans = [u \in Users |-> <<>>]
    /\ plan = [r \in PlanReqs |-> IdlePlan]
    /\ reg = [r \in RegReqs |-> IdleReg]
    /\ logins = <<>>
    /\ nutrition = <<>>

GeminiInit == gemini_model \in {LoadGemini(k) : k \in {None, "key"}}
SpotifyInit ==
    spotify \in {LoadSpotify(i, s, x) :
                    i \in {None, "id"}, s \in {None, "secret"}, x \in BOOLEAN}
EdamamInit ==
    /\ EDAMAM_APP_ID \in {None, "app_id"}
    /\ EDAMAM_APP_KEY \in {None, "app_key"}

Init == StateInit /\ GeminiInit /\ SpotifyInit /\ EdamamInit

\* generate_plan reads neither Edamam credential.
InitPlan ==
    /\ StateInit /\ GeminiInit /\ SpotifyInit
    /\ EDAMAM_APP_ID = "app_id" /\ EDAMAM_APP_KEY = "app_key"

SpecPlan == InitPlan /\ [][NextPlan]_vars

\* register_user and login_user read no service configuration.
InitAuth ==
    /\ StateInit
    /\ gemini_model = LoadGemini("key")
    /\ spotify = LoadSpotify("id", "secret", FALSE)
    /\ EDAMAM_APP_ID = "app_id" /\ EDAMAM_APP_KEY = "app_key"

SpecAuth == InitAuth /\ [][NextAuth]_vars

\* analyze_nutrition reads the two Edamam credentials only.
InitNutrition ==
    /\ StateInit /\ EdamamInit
    /\ gemini_model = LoadGemini("key")
    /\ spotify = LoadSpotify("id", "secret", FALSE)

SpecNutrition == InitNutrition /\ [][NextNutrition]_vars

\* The whole application: the endpoints share the stores only.
Next == NextPlan \/ NextAuth \/ NextNutrition

Spec == Init /\ [][Next]_vars

\* ======================================================= claims: plans ===
Done(r) == plan[r].pc = "done"
IsPrefix(s, t) == Len(s) <= Len(t) /\ SubSeq(t, 1, Len(s)) = s
IsErrorMarker(x) == DOMAIN x = {"error"}
StoredBy(r) == {plans[ref[1]][ref[2]] : ref \in plan[r].added}

\* C1: a generate_plan request that ends with the internal-error (500)
\* outcome has written no PlanRecord.
C1_FailedRequestWroteNothing ==
    \A r \in PlanReqs :
        (Done(r) /\ plan[r].status = HTTP_500_INTERNAL_SERVER_ERROR)
            => plan[r].added = {}

\* C2: with gemini_model unset every generate_plan request ends with 503 and
\* makes no generation call, no catalogue call and no write to the store.
C2_UnconfiguredIsUnavailable ==
    gemini_model = None =>
        /\ \A r \in PlanReqs :
              plan[r].pc # "idle" =>
                  /\ Done(r)
                  /\ plan[r].status = HTTP_503_SERVICE_UNAVAILABLE
                  /\ plan[r].calls = <<>>
                  /\ plan[r].added = {}
        /\ \A u \in Users : plans[u] = <<>>

C2_Witness ==
    /\ gemini_model = None
    /\ \A u \in Users :
          \E r \in PlanReqs :
              Done(r) /\ plan[r].request_data.user_uid = u
                      /\ plan[r].status = HTTP_503_SERVICE_UNAVAILABLE

CatalogFailed(req) == spotify # None /\ req.catalog = "degraded"

SingleErrorMarker(list) == Len(list) = 1 /\ IsErrorMarker(list[1])

\* C3: with the catalogue client configured, a request whose catalogue step
\* failed (the search raised, or an item was malformed) and whose record was
\* stored ends with 200, and the playlist field of the response and of the
\* stored record is a list of exactly one error marker.
C3_CatalogFailureDegrades ==
    \A r \in PlanReqs :
        (spotify # None /\ Done(r) /\ CatalogFailed(plan[r]) /\ plan[r].added # {})
            => /\ plan[r].status = HTTP_200_OK
               /\ SingleErrorMarker(plan[r].response.music_playlist_suggestions)
               /\ \A d \in StoredBy(r) :
                     SingleErrorMarker(d.music_playlist_suggestions)

\* C4: with gemini_model set and the catalogue client unset, a request whose
\* two generation calls succeeded and whose record was stored made no search
\* call and ends with 200 carrying the workout text, the diet text and a
\* playlist list of exactly one "not initialized" marker.
C4_UnconfiguredCatalogDegrades ==
    \A r \in PlanReqs :
        (gemini_model # None /\ spotify = None /\ Done(r) /\ plan[r].added # {})
            => /\ \A i \in 1..Len(plan[r].calls) : plan[r].calls[i] # "search"
               /\ plan[r].status = HTTP_200_OK
               /\ plan[r].response.workout_plan = plan[r].workout_plan
               /\ plan[r].response.diet_plan_summary = plan[r].diet_general_info
               /\ plan[r].response.music_playlist_suggestions
                     = <<MarkerNotInitialized>>

C5_State ==
    /\ \A r \in PlanReqs :
          /\ Cardinality(plan[r].added) <= 1
          /\ plan[r].status = HTTP_200_OK => Cardinality(plan[r].added) = 1
          /\ \A ref \in plan[r].added :
                /\ ref[1] = plan[r].request_data.user_uid
                /\ ref[2] \in 1..Len(plans[ref[1]])
                /\ LET d == plans[ref[1]][ref[2]]
                       b == plan[r].request_data
                   IN  /\ d.current_weight = b.current_weight
                       /\ d.target_weight = b.target_weight
                       /\ d.duration_weeks = b.duration_weeks
                       /\ d.music_genre = b.music_genre
                       /\ d.workout_intensity = b.workout_intensity
                       /\ d.workout_plan = plan[r].workout_plan
                       /\ d.diet_general_info = plan[r].diet_general_info
                       /\ d.music_playlist_suggestions
                             = plan[r].playlist_suggestions
    /\ \A r1, r2 \in PlanReqs :
          r1 # r2 => plan[r1].added \cap plan[r2].added = {}
    /\ \A u \in Users :
          \A i \in 1..Len(plans[u]) :
              \E r \in PlanReqs : <<u, i>> \in plan[r].added

C5_AppendOnly ==
    \A u \in Users : IsPrefix(plans[u], plans'[u])

CallOrder == <<"generate_workout", "generate_diet", "search", "add">>
CallOrderNoSearch == <<"generate_workout", "generate_diet", "add">>

\* C9: the external calls of one request are a prefix of: workout generation,
\* diet generation, at most one catalogue search, at most one store write; no
\* call is issued twice, and the write happens only after both texts were
\* returned and the catalogue step has produced its list.
C9_LinearCalls ==
    \A r \in PlanReqs :
        /\ \/ IsPrefix(plan[r].calls, CallOrder)
           \/ IsPrefix(plan[r].calls, CallOrderNoSearch)
        /\ (\E i \in 1..Len(plan[r].calls) : plan[r].calls[i] = "add")
              => /\ plan[r].workout_plan \in WorkoutTexts
                 /\ plan[r].diet_general_info \in DietTexts
                 /\ plan[r].catalog # "pending"

C9_Witness ==
    \E r \in PlanReqs : Done(r) /\ plan[r].calls = CallOrder

\* ======================================================== claims: auth ===
RegDone(r) == reg[r].pc = "done"

\* C6: a register request whose email already exists in the identity service
\* ends with 409, never 400, and creates no identity record and no profile.
C6_DuplicateEmailIsConflict ==
    \A r \in RegReqs :
        (RegDone(r) /\ reg[r].existed)
            => /\ reg[r].status = HTTP_409_CONFLICT
               /\ reg[r].uid = 0

Matches(e) ==
    {k \in 1..Len(e.store) : e.store[k].email = e.request_data.email}

C8_State ==
    /\ \A i \in 1..Len(logins) :
          LET e == logins[i]
          IN  (~e.fault /\ ~Malformed(e.request_data.email)) =>
                  IF Matches(e) # {}
                  THEN /\ e.answer.status = HTTP_200_OK
                       /\ e.answer.response.email = e.request_data.email
                       /\ \E k \in Matches(e) :
                             e.answer.response.uid = e.store[k].uid
                  ELSE e.answer.status = HTTP_404_NOT_FOUND
    /\ \A i, j \in 1..Len(logins) :
          (/\ logins[i].request_data.email = logins[j].request_data.email
           /\ logins[i].store = logins[j].store
           /\ logins[i].fault = logins[j].fault)
              => logins[i].answer = logins[j].answer

C8_NoWrites ==
    logins' # logins => UNCHANGED <<identities, profiles, plans>>

\* C8: the answer of a login request depends on the email and the identity
\* store only, never on the password: the uid and email of the matching
\* identity when one exists, 404 when none does (a failing lookup aside); and
\* a login request changes neither the identity store nor the record store.
C8_LoginIsLookupByEmail == []C8_State /\ [][C8_NoWrites]_vars

C8_Witness ==
    \E i, j \in 1..Len(logins) :
        /\ logins[i].request_data.email = logins[j].request_data.email
        /\ logins[i].request_data.password # logins[j].request_data.password
        /\ logins[i].store = logins[j].store
        /\ Matches(logins[i]) # {}
        /\ \E k \in Matches(logins[i]) :
              logins[i].store[k].password = logins[i].request_data.password
        /\ logins[i].answer.status = HTTP_200_OK
        /\ logins[j].answer.status = HTTP_200_OK

\* C10: once no register request is in flight, every identity record has a
\* profile document keyed by its uid; a register request ends with 201 only
\* if it created both, and one that ends with a failure leaves no identity
\* record without a profile document.
C10_IdentityHasProfile ==
    /\ (\A r \in RegReqs : reg[r].pc \in {"idle", "done"})
          => \A i \in 1..Len(identities) : identities[i].uid \in DOMAIN profiles
    /\ \A r \in RegReqs :
          RegDone(r) =>
              /\ reg[r].status = HTTP_201_CREATED
                    => reg[r].uid # 0 /\ reg[r].uid \in DOMAIN profiles
              /\ reg[r].uid # 0 => reg[r].uid \in DOMAIN profiles

\* =================================================== claims: nutrition ===
\* C7: without both Edamam credentials every analyze_nutrition request ends
\* with 503 and posts nothing upstream; with them, a request whose upstream
\* call succeeds posts exactly once, the ingredient strings in the order
\* given, and answers 200 with the upstream JSON unchanged.
C7_NutritionPassthrough ==
    \A n \in 1..Len(nutrition) :
        LET e == nutrition[n]
        IN  /\ (EDAMAM_APP_ID = None \/ EDAMAM_APP_KEY = None)
                  => /\ e.answer.status = HTTP_503_SERVICE_UNAVAILABLE
                     /\ e.answer.calls = <<>>
            /\ (EDAMAM_APP_ID # None /\ EDAMAM_APP_KEY # None
                  /\ e.upstream.kind = "json")
                  => /\ Len(e.answer.calls) = 1
                     /\ Len(e.answer.calls[1].ingredients) = Len(e.ingredients)
                     /\ \A i \in 1..Len(e.ingredients) :
                           e.answer.calls[1].ingredients[i]
                              = e.ingredients[i].ingredient
                     /\ e.answer.status = HTTP_200_OK
                     /\ e.answer.body = e.upstream.json

C7_Witness ==
    \E n \in 1..Len(nutrition) :
        LET e == nutrition[n]
        IN  /\ EDAMAM_APP_ID # None /\ EDAMAM_APP_KEY # None
            /\ e.upstream.kind = "json"
            /\ Len(e.ingredients) = 2
            /\ e.ingredients[1] # e.ingredients[2]
            /\ e.answer.status = HTTP_200_OK

====
